---- MODULE Spec2Model ----
(***************************************************************************)
(* A model of the Rightmove listings scraper                               *)
(* (rightmove_listings_scraper_cli.py): pagination, card extraction,       *)
(* detail enrichment, the recency filter and the CSV sink with its pandas  *)
(* deduplication pass.                                                     *)
(*                                                                         *)
(* Conventions.  A Python value that may be None is a sequence of length   *)
(* 0 (None) or 1 (the value).  A CSV cell is modelled by the value pandas  *)
(* parses from it (an empty cell is NaN, modelled as None), not by its     *)
(* text.  Floats that count days are whole or half days and are kept in    *)
(* half-day units (1.0 day = 2).  Text is a sequence of one-character      *)
(* strings.                                                                *)
(***************************************************************************)
EXTENDS Integers, Sequences, FiniteSets, TLC

VARIABLES
    pc,            \* position of the running operation
    max_pages,     \* run_scrape argument
    fetch_details, \* run_scrape argument
    max_age_days,  \* run_scrape argument (None or half-days)
    append,        \* run_scrape argument
    page_num,      \* loop variable of search_properties
    properties,    \* the list of property dictionaries being built
    idx,           \* loop position of enrich_property_details (1-based)
    file,          \* the output CSV file
    outcome,       \* how the last operation ended
    calls,         \* the session.get and time.sleep calls of the running job
    jobs,          \* number of run_scrape jobs started
    faults,        \* number of sink failures injected so far
    input,         \* the argument list the running operation was given
    fileAtStart,   \* the file as it was when the running job started
    lastSeen,      \* property_id -> the row most recently written for it
    today,         \* the current date <<day, month, year>>
    env,           \* what the environment supplies: cards, detail pages, jobs, max_pages
    served,        \* number of cards the listing pages have held so far
    cpc,           \* concurrent jobs: position of each job
    cdf,           \* concurrent jobs: the DataFrame each job has read
    cbatch         \* concurrent jobs: the rows each job writes

vars == <<pc, max_pages, fetch_details, max_age_days, append, page_num,
          properties, idx, file, outcome, calls, jobs, faults, input,
          fileAtStart, lastSeen, today, env, served, cpc, cdf,
          cbatch>>

-----------------------------------------------------------------------------
(* Bounds of the model *)

MaxPagesBound == 3   \* largest max_pages a job is given
MaxCards == 2        \* most cards the listing pages hold in all
MaxJobs == 2         \* run_scrape jobs in one behaviour
MaxFaults == 1       \* sink failures in one behaviour
MaxRows == 2         \* longest list handed to a stand-alone operation
MaxListings == 3     \* longest list handed to filter_recent_listings
MaxPageCards == 2    \* most cards on a page handed to _extract_card_data
MaxPriceLen == 3     \* longest price text drawn from the alphabet

-----------------------------------------------------------------------------
(* Optional values *)

None == <<>>
Some(v) == <<v>>
Val(o) == o[1]

RECURSIVE Concat(_)
Concat(ss) == IF ss = <<>> THEN <<>> ELSE Head(ss) \o Concat(Tail(ss))

SeqsUpTo(S, n) == UNION {[1..k -> S] : k \in 0..n}

Range(s) == {s[i] : i \in DOMAIN s}

-----------------------------------------------------------------------------
(* Calendar arithmetic of datetime(year, month, day) and timedelta.days *)

IsLeap(y) == (y % 4 = 0 /\ y % 100 # 0) \/ y % 400 = 0

DaysInMonth(m, y) ==
    IF m = 2 THEN (IF IsLeap(y) THEN 29 ELSE 28)
    ELSE IF m \in {4, 6, 9, 11} THEN 30 ELSE 31

RECURSIVE DaysBeforeMonth(_, _)
DaysBeforeMonth(m, y) ==
    IF m <= 1 THEN 0 ELSE DaysBeforeMonth(m - 1, y) + DaysInMonth(m - 1, y)

\* datetime(year, month, day) raises ValueError unless this holds.
ValidDate(d, m, y) ==
    /\ y >= 1 /\ y <= 9999
    /\ m >= 1 /\ m <= 12
    /\ d >= 1 /\ d <= DaysInMonth(m, y)

\* Proleptic Gregorian ordinal (date.toordinal()).
Ordinal(d, m, y) ==
    365 * (y - 1) + ((y - 1) \div 4) - ((y - 1) \div 100) + ((y - 1) \div 400)
      + DaysBeforeMonth(m, y) + d

-----------------------------------------------------------------------------
(* parse_listing_age.  A date_listed text is modelled by what the function *)
(* looks for in it: whether the lower-cased text contains "today", whether *)
(* it contains "yesterday", and the first D/M/YYYY match, if any.          *)

DateText(t, y, d) == [today |-> t, yesterday |-> y, date |-> d]

\* "yesterday" looked for before "today".
parse_listing_age_yesterday_first(date_listed, now) ==
    IF date_listed = None THEN None
    ELSE LET txt == Val(date_listed) IN
         IF txt.yesterday THEN Some(2)
         ELSE IF txt.today THEN Some(0)
         ELSE IF txt.date # None THEN
              LET dmy == Val(txt.date) IN
              IF ValidDate(dmy[1], dmy[2], dmy[3])
              THEN Some(2 * (Ordinal(now[1], now[2], now[3])
                               - Ordinal(dmy[1], dmy[2], dmy[3])))
              ELSE None
         ELSE None

\* The result is None or Some(age in half-days).
parse_listing_age(date_listed, now) ==
    IF date_listed = None THEN None
    ELSE LET txt == Val(date_listed) IN
         IF txt.today THEN Some(0)
         ELSE IF txt.yesterday THEN Some(2)
         ELSE IF txt.date # None THEN
              LET dmy == Val(txt.date) IN
              IF ValidDate(dmy[1], dmy[2], dmy[3])
              THEN Some(2 * (Ordinal(now[1], now[2], now[3])
                               - Ordinal(dmy[1], dmy[2], dmy[3])))
              ELSE None
         ELSE None

-----------------------------------------------------------------------------
(* Price text: re.search(r'£([\d,]+)', text), commas removed, int(). *)

Digits == {"0", "1", "2", "3", "4", "5", "6", "7", "8", "9"}

DigitVal(c) ==
    CASE c = "0" -> 0 [] c = "1" -> 1 [] c = "2" -> 2 [] c = "3" -> 3
      [] c = "4" -> 4 [] c = "5" -> 5 [] c = "6" -> 6 [] c = "7" -> 7
      [] c = "8" -> 8 [] c = "9" -> 9

RECURSIVE IntOfDigits(_)
IntOfDigits(ds) ==
    IF ds = <<>> THEN 0
    ELSE 10 * IntOfDigits(SubSeq(ds, 1, Len(ds) - 1)) + DigitVal(ds[Len(ds)])

\* int(text) on text made of digits: ValueError (raised) on the empty string.
IsIntText(txt) == txt # <<>> /\ \A i \in DOMAIN txt : txt[i] \in Digits

\* Length of the longest run of characters of S that starts at position i.
RECURSIVE RunLen(_, _, _)
RunLen(txt, i, S) ==
    IF i > Len(txt) \/ txt[i] \notin S THEN 0 ELSE 1 + RunLen(txt, i + 1, S)

\* group(1) of the first match of £([\d,]+), or None.
PriceMatch(txt) ==
    LET starts == {i \in DOMAIN txt :
                      txt[i] = "£" /\ RunLen(txt, i + 1, Digits \cup {","}) > 0}
    IN IF starts = {} THEN None
       ELSE LET i == CHOOSE j \in starts : \A k \in starts : j <= k
            IN Some(SubSeq(txt, i + 1, i + RunLen(txt, i + 1, Digits \cup {","})))

StripCommas(g) == SelectSeq(g, LAMBDA c : c # ",")

\* The price expression of lines 180-181: [raised, value].
ResolvePrice(txt) ==
    LET m == PriceMatch(txt) IN
    IF m = None THEN [raised |-> FALSE, value |-> None]
    ELSE IF IsIntText(StripCommas(Val(m)))
         THEN [raised |-> FALSE, value |-> Some(IntOfDigits(StripCommas(Val(m))))]
         ELSE [raised |-> TRUE, value |-> None]

\* int(elem.text.strip()) of an optional element: [raised, value].
ResolveCount(elem) ==
    IF elem = None THEN [raised |-> FALSE, value |-> None]
    ELSE IF IsIntText(Val(elem))
         THEN [raised |-> FALSE, value |-> Some(IntOfDigits(Val(elem)))]
         ELSE [raised |-> TRUE, value |-> None]

-----------------------------------------------------------------------------
(* _extract_card_data.  A card is [href, price, bedrooms, bathrooms, date]: *)
(* href is None (no link, or an empty href) or Some(pid) where pid is None *)
(* or Some(n), the number matched by /properties/(\d+); price is None (no  *)
(* price element) or Some(text); bedrooms and bathrooms are None or        *)
(* Some(text); date is None or Some(DateText).                             *)

Card(h, p, bd, bt, dt) ==
    [href |-> h, price |-> p, bedrooms |-> bd, bathrooms |-> bt, date |-> dt]

Url == <<"url">>

\* The dictionary _extract_card_data builds (lines 160-228).
CardRecord(card) ==
    [listing_url |-> Url,
     property_id |-> Val(card.href),
     price |-> IF card.price = None THEN None
               ELSE ResolvePrice(Val(card.price)).value,
     bedrooms |-> ResolveCount(card.bedrooms).value,
     bathrooms |-> ResolveCount(card.bathrooms).value,
     date_listed |-> card.date,
     area_sqft |-> None,
     leasehold |-> None]

\* An exception anywhere in the try body (line 230) gives None.
CardRaises(card) ==
    \/ card.price # None /\ ResolvePrice(Val(card.price)).raised
    \/ ResolveCount(card.bedrooms).raised
    \/ ResolveCount(card.bathrooms).raised

\* A card without a link gives a record without listing_url.
extract_card_data_linkless(card) ==
    IF CardRaises(card) THEN None
    ELSE IF card.href = None
    THEN Some([CardRecord([card EXCEPT !.href = Some(None)])
                 EXCEPT !.listing_url = None])
    ELSE Some(CardRecord(card))

\* None, or Some(record).
extract_card_data(card) ==
    IF card.href = None THEN None
    ELSE IF CardRaises(card) THEN None
    ELSE Some(CardRecord(card))

\* The loop of lines 137-140 over the cards of one page.
RECURSIVE ExtractCards(_)
ExtractCards(cards) ==
    IF cards = <<>> THEN <<>>
    ELSE LET r == extract_card_data(Head(cards)) IN
         (IF r = None THEN <<>> ELSE <<Val(r)>>) \o ExtractCards(Tail(cards))

-----------------------------------------------------------------------------
(* The CSV file: whether it exists, whether its first line is the header   *)
(* line, and its data rows.                                                *)

NoFile == [exists |-> FALSE, header |-> FALSE, rows |-> <<>>]
CsvFile(rows) == [exists |-> TRUE, header |-> TRUE, rows |-> rows]

\* The file is opened for writing whatever append is.
OpenModeW(app) == "w"

\* mode = 'a' if append else 'w' (line 353)
OpenMode(app) == IF app THEN "a" ELSE "w"

\* not append or not file_exists (line 359)
HeaderDue(app, file_exists) == ~app \/ ~file_exists

\* open(output_file, mode): 'w' truncates, 'a' creates a missing file.
Opened(f, mode) ==
    IF mode = "w" \/ ~f.exists
    THEN [exists |-> TRUE, header |-> FALSE, rows |-> <<>>]
    ELSE f

\* The file once the header (if hdr) and the first n rows have been written
\* (lines 355-362); n = Len(props) and hdr = HeaderDue is the complete write.
Written(props, f, app, hdr, n) ==
    LET o == Opened(f, OpenMode(app)) IN
    [exists |-> TRUE,
     header |-> o.header \/ hdr,
     rows |-> o.rows \o SubSeq(props, 1, n)]

save_to_csv(props, f, app) ==
    IF props = <<>> THEN f
    ELSE Written(props, f, app, HeaderDue(app, f.exists), Len(props))

\* DataFrame.duplicated(subset=['property_id']): rows are compared by their
\* property_id cell, and pandas takes two NaN cells to be equal.
SameKey(a, b) == a.property_id = b.property_id

\* keep='first' in place of keep='last'.
KeepRowFirst(rows, i) == \A j \in 1..(i - 1) : ~SameKey(rows[i], rows[j])

\* keep='last': a row stays when no later row has its key.
KeepRow(rows, i) == \A j \in (i + 1)..Len(rows) : ~SameKey(rows[i], rows[j])

RECURSIVE KeptFrom(_, _)
KeptFrom(rows, i) ==
    IF i > Len(rows) THEN <<>>
    ELSE (IF KeepRow(rows, i) THEN <<rows[i]>> ELSE <<>>) \o KeptFrom(rows, i + 1)

\* df.drop_duplicates(subset=['property_id'], keep='last') (line 400)
drop_duplicates(rows) == KeptFrom(rows, 1)

\* pd.read_csv(csv_file) (line 386): the first line of the file names the
\* columns.  [raised, columns, rows]: an empty file raises EmptyDataError; a
\* file whose first line is a data row has that row taken for the header.
read_csv(f) ==
    IF f.header THEN [raised |-> FALSE, columns |-> TRUE, rows |-> f.rows]
    ELSE IF f.rows = <<>> THEN [raised |-> TRUE, columns |-> FALSE, rows |-> <<>>]
    ELSE [raised |-> FALSE, columns |-> FALSE, rows |-> Tail(f.rows)]

\* df_deduped.to_csv(csv_file, index=False) once the header (if hdr) and the
\* first n rows are written; n = Len(rows) and hdr is the complete write.
to_csv(rows, hdr, n) ==
    [exists |-> TRUE, header |-> hdr, rows |-> SubSeq(rows, 1, n)]

\* deduplicate_csv without a sink failure: [file, result].
deduplicate_csv(f) ==
    IF ~f.exists THEN [file |-> f, result |-> "missing"]
    ELSE LET df == read_csv(f) IN
         IF df.raised THEN [file |-> f, result |-> "failed"]
         ELSE IF df.rows = <<>> THEN [file |-> f, result |-> "empty"]
         ELSE IF ~df.columns THEN [file |-> f, result |-> "failed"]
         ELSE LET d == drop_duplicates(df.rows) IN
              [file |-> to_csv(d, TRUE, Len(d)), result |-> "deduped"]

-----------------------------------------------------------------------------
(* enrich_property_details.  A detail page is [ok, area, tenure]: ok is    *)
(* whether the fetch succeeded; area is None or Some(text), the group      *)
(* matched by ([\d,]+)\s*sq\.?\s*ft; tenure is None or Some(b), b being    *)
(* whether the matched paragraph contains "leasehold".                     *)

DetailPage(ok, a, t) == [ok |-> ok, area |-> a, tenure |-> t]

\* int(area_match.group(1).replace(',', '')) raises ValueError (line 275).
DetailRaises(page) ==
    page.area # None /\ ~IsIntText(StripCommas(Val(page.area)))

\* Lines 266-282 on a fetched page that parses.
SetDetails(prop, page) ==
    LET a == IF page.area # None
             THEN [prop EXCEPT !.area_sqft =
                                  Some(IntOfDigits(StripCommas(Val(page.area))))]
             ELSE prop
    IN IF page.tenure # None
       THEN [a EXCEPT !.leasehold = page.tenure]
       ELSE a

\* A failed fetch that leaves a zero area in the record.
EnrichOneMarksFailure(prop, page) ==
    IF prop.listing_url = None THEN prop
    ELSE IF ~page.ok THEN [prop EXCEPT !.area_sqft = Some(0)]
    ELSE IF DetailRaises(page) THEN prop
    ELSE SetDetails(prop, page)

\* What one iteration of the loop of lines 252-292 leaves in the record.
EnrichOne(prop, page) ==
    IF prop.listing_url = None THEN prop
    ELSE IF ~page.ok THEN prop
    ELSE IF DetailRaises(page) THEN prop
    ELSE SetDetails(prop, page)

\* time.sleep(self.delay + 2) is reached (line 285).
DetailSleeps(prop, page) ==
    prop.listing_url # None /\ page.ok /\ ~DetailRaises(page)

-----------------------------------------------------------------------------
(* filter_recent_listings *)

\* age < max_age_days in place of age <= max_age_days.
RecentStrict(age, max) == age = None \/ Val(age) < max

\* age is None, or age <= max_age_days (lines 318-324)
Recent(age, max) == age = None \/ Val(age) <= max

RECURSIVE FilterLoop(_, _, _)
FilterLoop(props, max, now) ==
    IF props = <<>> THEN <<>>
    ELSE (IF Recent(parse_listing_age(Head(props).date_listed, now), max)
          THEN <<Head(props)>> ELSE <<>>)
         \o FilterLoop(Tail(props), max, now)

filter_recent_listings(props, max_age, now) ==
    IF max_age = None THEN props
    ELSE FilterLoop(props, Val(max_age), now)

-----------------------------------------------------------------------------
(* The inputs the environment supplies *)

PropertyIds == {1, 2}

P100 == <<"£", "1", "0", "0">>
P200 == <<"£", "2", "0", "0">>
POA == <<"P", "O", "A">>

Now0 == <<10, 1, 2025>>
AddedToday == DateText(TRUE, FALSE, None)
AddedOld == DateText(FALSE, FALSE, Some(<<5, 1, 2025>>))

\* The cards a listing page is made of.
PageCards ==
    { Card(Some(Some(1)), Some(P100), Some(<<"2">>), Some(<<"1">>), Some(AddedToday)),
      Card(Some(Some(1)), Some(P200), Some(<<"2">>), Some(<<"1">>), Some(AddedOld)),
      Card(Some(Some(2)), Some(P100), Some(<<"3">>), None, Some(AddedToday)),
      Card(Some(None), Some(POA), None, None, None),
      Card(None, Some(P100), None, None, None) }

\* The cards of the jobs that share one output file.
SinkCards ==
    { Card(Some(Some(1)), Some(P100), Some(<<"2">>), Some(<<"1">>), Some(AddedToday)),
      Card(Some(Some(1)), Some(P200), Some(<<"2">>), Some(<<"1">>), Some(AddedOld)),
      Card(Some(Some(2)), Some(P100), Some(<<"3">>), None, Some(AddedToday)) }

\* What session.get gives for a listing page: a failure, or a page of at
\* most n cards.
Responses(cards, n) ==
    {[ok |-> FALSE, cards |-> <<>>]}
      \cup {[ok |-> TRUE, cards |-> cs] : cs \in SeqsUpTo(cards, n)}

\* What session.get gives for a detail page.
DetailPages ==
    { DetailPage(FALSE, None, None),
      DetailPage(TRUE, Some(<<"7", "2", "6">>), Some(TRUE)),
      DetailPage(TRUE, Some(<<",">>), Some(FALSE)) }

SinkDetailPages ==
    { DetailPage(FALSE, None, None),
      DetailPage(TRUE, Some(<<"7", "2", "6">>), Some(TRUE)) }

\* One job on a file an earlier run may have left.
OneJobEnv ==
    [cards |-> PageCards, details |-> DetailPages, jobs |-> 1,
     pages |-> 0..MaxPagesBound]

\* Several jobs, one after the other, on the same output file, each asked
\* for one page at most.
JobsEnv ==
    [cards |-> SinkCards, details |-> SinkDetailPages, jobs |-> MaxJobs,
     pages |-> 0..1]

\* --max-age values, in half-days
MaxAges == {None, Some(2)}

-----------------------------------------------------------------------------
(* The network and sleep calls a job makes, in order *)

DefaultDelay == 2       \* --delay default, seconds
DetailExtraDelay == 2   \* time.sleep(self.delay + 2)

\* kind "page": session.get of listing page n, which held `cards` cards that
\* gave the records recs; kind "detail": session.get of the detail page of
\* record n; kind "sleep": time.sleep(n).
Call(k, n, ok, cards, recs) ==
    [kind |-> k, n |-> n, ok |-> ok, cards |-> cards, recs |-> recs]
PageCall(n, resp) ==
    Call("page", n, resp.ok, Len(resp.cards), ExtractCards(resp.cards))
DetailCall(i, page) == Call("detail", i, page.ok, 0, <<>>)
SleepCall(sec) == Call("sleep", sec, TRUE, 0, <<>>)

-----------------------------------------------------------------------------
(* search_properties: one iteration of the loop of lines 109-144 on page n *)
(* of max, given the response.  returned: the loop has ended; sleep: the   *)
(* time.sleep(self.delay) of line 144 is reached.                          *)

\* A driver that goes on to the next page after an empty page.
SearchStepPastEmpty(resp, n, max, props) ==
    IF ~resp.ok
    THEN [properties |-> props, page_num |-> n, returned |-> TRUE, sleep |-> FALSE]
    ELSE [properties |-> props \o ExtractCards(resp.cards),
          page_num |-> n + 1,
          returned |-> ~(n + 1 < max),
          sleep |-> n < max - 1]

\* A driver that goes on to the next page after a failed fetch.
SearchStepPastError(resp, n, max, props) ==
    IF ~resp.ok
    THEN [properties |-> props, page_num |-> n + 1, returned |-> ~(n + 1 < max),
          sleep |-> FALSE]
    ELSE IF resp.cards = <<>>
    THEN [properties |-> props, page_num |-> n, returned |-> TRUE, sleep |-> FALSE]
    ELSE [properties |-> props \o ExtractCards(resp.cards),
          page_num |-> n + 1,
          returned |-> ~(n + 1 < max),
          sleep |-> n < max - 1]

SearchStep(resp, n, max, props) ==
    IF ~resp.ok
    THEN [properties |-> props, page_num |-> n, returned |-> TRUE, sleep |-> FALSE]
    ELSE IF resp.cards = <<>>
    THEN [properties |-> props, page_num |-> n, returned |-> TRUE, sleep |-> FALSE]
    ELSE [properties |-> props \o ExtractCards(resp.cards),
          page_num |-> n + 1,
          returned |-> ~(n + 1 < max),
          sleep |-> n < max - 1]

\* lastSeen after the rows are written in order.
RECURSIVE UpdateSeen(_, _)
UpdateSeen(seen, rows) ==
    IF rows = <<>> THEN seen
    ELSE UpdateSeen(IF Head(rows).property_id = None THEN seen
                    ELSE [seen EXCEPT ![Val(Head(rows).property_id)] = Some(Head(rows))],
                    Tail(rows))

sinkVars == <<file, faults, lastSeen>>
argVars == <<max_pages, fetch_details, max_age_days, append>>
concVars == <<cpc, cdf, cbatch>>

-----------------------------------------------------------------------------
(* run_scrape *)

\* run_scrape is called (lines 519-547).
StartJob ==
    /\ pc \in {"idle", "done"}
    /\ jobs < env.jobs
    /\ \E mp \in env.pages, fd \in BOOLEAN, ma \in MaxAges, ap \in BOOLEAN :
         /\ max_pages' = mp
         /\ fetch_details' = fd
         /\ max_age_days' = ma
         /\ append' = ap
         /\ pc' = IF mp > 0 THEN "search" ELSE "searched"
    /\ jobs' = jobs + 1
    /\ page_num' = 0
    /\ properties' = <<>>
    /\ idx' = 0
    /\ calls' = <<>>
    /\ input' = <<>>
    /\ outcome' = "running"
    /\ fileAtStart' = file
    /\ UNCHANGED <<sinkVars, today, env, served, concVars>>

\* One iteration of the loop of search_properties.
SearchPage ==
    /\ pc = "search"
    /\ page_num < max_pages
    /\ \E resp \in Responses(env.cards, MaxCards - served) :
         LET r == SearchStep(resp, page_num, max_pages, properties) IN
         /\ properties' = r.properties
         /\ page_num' = r.page_num
         /\ pc' = IF r.returned THEN "searched" ELSE "search"
         /\ calls' = calls \o <<PageCall(page_num, resp)>>
                       \o (IF r.sleep THEN <<SleepCall(DefaultDelay)>> ELSE <<>>)
         /\ served' = served + Len(resp.cards)
    /\ UNCHANGED <<argVars, idx, outcome, jobs, input, fileAtStart, sinkVars,
                   today, env, concVars>>

\* run_scrape after search_properties returned (lines 549-554).
AfterSearch ==
    /\ pc = "searched"
    /\ IF properties = <<>>
       THEN /\ pc' = "done"
            /\ outcome' = "no_properties"
            /\ UNCHANGED <<idx, input>>
       ELSE /\ pc' = "enrich"
            /\ idx' = 1
            /\ input' = properties
            /\ UNCHANGED outcome
    /\ UNCHANGED <<argVars, page_num, properties, calls, jobs, fileAtStart,
                   sinkVars, today, env, served, concVars>>

\* One iteration of the loop of enrich_property_details (lines 252-292).
EnrichStep ==
    /\ pc = "enrich"
    /\ fetch_details
    /\ idx <= Len(properties)
    /\ LET prop == properties[idx] IN
       IF prop.listing_url = None
       THEN UNCHANGED <<properties, calls>>
       ELSE \E page \in env.details :
              /\ properties' = [properties EXCEPT ![idx] = EnrichOne(prop, page)]
              /\ calls' = calls \o <<DetailCall(idx, page)>>
                            \o (IF DetailSleeps(prop, page)
                                THEN <<SleepCall(DefaultDelay + DetailExtraDelay)>>
                                ELSE <<>>)
    /\ idx' = idx + 1
    /\ UNCHANGED <<pc, argVars, page_num, outcome, jobs, input, fileAtStart,
                   sinkVars, today, env, served, concVars>>

\* A run_scrape that goes on to the sink when the filter kept nothing.
FilterStepAlwaysSaves ==
    /\ pc = "enrich"
    /\ ~fetch_details \/ idx > Len(properties)
    /\ properties' = filter_recent_listings(properties, max_age_days, today)
    /\ pc' = "save"
    /\ calls' = <<>>
    /\ input' = <<>>
    /\ UNCHANGED <<argVars, page_num, idx, outcome, jobs, fileAtStart, sinkVars,
                   today, env, served, concVars>>

\* enrich_property_details has returned; run_scrape filters (lines 554-561).
FilterStep ==
    /\ pc = "enrich"
    /\ ~fetch_details \/ idx > Len(properties)
    /\ LET kept == filter_recent_listings(properties, max_age_days, today) IN
       /\ properties' = kept
       /\ IF kept = <<>>
          THEN pc' = "done" /\ outcome' = "no_recent"
          ELSE pc' = "save" /\ UNCHANGED outcome
    /\ calls' = <<>>
    /\ input' = <<>>
    /\ UNCHANGED <<argVars, page_num, idx, jobs, fileAtStart, sinkVars, today,
                   env, served, concVars>>

\* save_to_csv completes (line 564).
SaveStep ==
    /\ pc = "save"
    /\ file' = save_to_csv(properties, file, append)
    /\ lastSeen' = UpdateSeen(lastSeen, properties)
    /\ pc' = "dedup"
    /\ UNCHANGED <<argVars, page_num, properties, idx, outcome, calls, jobs,
                   faults, input, fileAtStart, today, env, served, concVars>>

\* save_to_csv meets an IOError: at open, or after the header (hdr) and n rows
\* have reached the file; sys.exit(1) ends the process (lines 366-368).
SaveFails ==
    /\ pc = "save"
    /\ properties # <<>>
    /\ faults < MaxFaults
    /\ faults' = faults + 1
    /\ \E opened \in BOOLEAN, hdr \in BOOLEAN, n \in 0..(Len(properties) - 1) :
         /\ hdr => HeaderDue(append, file.exists)
         /\ n > 0 /\ HeaderDue(append, file.exists) => hdr
         /\ ~opened => n = 0 /\ ~hdr
         /\ file' = IF opened THEN Written(properties, file, append, hdr, n) ELSE file
         /\ lastSeen' = UpdateSeen(lastSeen, SubSeq(properties, 1, n))
    /\ pc' = "done"
    /\ outcome' = "save_sink_error"
    /\ UNCHANGED <<argVars, page_num, properties, idx, calls, jobs, input,
                   fileAtStart, today, env, served, concVars>>

\* deduplicate_csv completes (line 567).
DedupStep ==
    /\ pc = "dedup"
    /\ file' = deduplicate_csv(file).file
    /\ outcome' = deduplicate_csv(file).result
    /\ pc' = "done"
    /\ UNCHANGED <<argVars, page_num, properties, idx, calls, jobs, faults,
                   input, fileAtStart, lastSeen, today, env, served, concVars>>

\* deduplicate_csv meets an exception from the sink: reading, or writing back
\* after the header (hdr) and n rows have reached the file; it is logged and
\* swallowed (lines 412-413).
DedupFails ==
    /\ pc = "dedup"
    /\ deduplicate_csv(file).result = "deduped"
    /\ faults < MaxFaults
    /\ faults' = faults + 1
    /\ LET d == drop_duplicates(read_csv(file).rows) IN
       \E opened \in BOOLEAN, hdr \in BOOLEAN, n \in 0..(Len(d) - 1) :
         /\ n > 0 => hdr
         /\ ~opened => n = 0 /\ ~hdr
         /\ file' = IF opened THEN to_csv(d, hdr, n) ELSE file
    /\ outcome' = "dedup_sink_error"
    /\ pc' = "done"
    /\ UNCHANGED <<argVars, page_num, properties, idx, calls, jobs, input,
                   fileAtStart, lastSeen, today, env, served, concVars>>

\* A row of the file with the given property_id and price cells.
Row(pid, price) ==
    [listing_url |-> Url, property_id |-> pid, price |-> price,
     bedrooms |-> None, bathrooms |-> None, date_listed |-> None,
     area_sqft |-> None, leasehold |-> None]

\* The output file as an earlier run may have left it.
EarlierFiles ==
    { NoFile,
      CsvFile(<<Row(Some(1), Some(150))>>),
      CsvFile(<<Row(Some(2), Some(150)), Row(None, None)>>) }

NoneSeen == [i \in PropertyIds |-> None]

\* Nothing has been called yet.
Quiet ==
    /\ max_pages = 0
    /\ page_num = 0
    /\ outcome = "none"
    /\ calls = <<>>
    /\ jobs = 0
    /\ faults = 0
    /\ served = 0
    /\ cpc = <<>>
    /\ cdf = <<>>
    /\ cbatch = <<>>

\* No operation is running.
Idle ==
    /\ Quiet
    /\ pc = "idle"
    /\ fetch_details = FALSE
    /\ max_age_days = None
    /\ append = FALSE
    /\ properties = <<>>
    /\ idx = 0
    /\ input = <<>>
    /\ today = Now0

\* One run_scrape job.
Init ==
    /\ Idle
    /\ env = OneJobEnv
    /\ file \in EarlierFiles
    /\ fileAtStart = file
    /\ lastSeen = UpdateSeen(NoneSeen, file.rows)

Next ==
    \/ StartJob
    \/ SearchPage
    \/ AfterSearch
    \/ EnrichStep
    \/ FilterStep
    \/ SaveStep
    \/ SaveFails
    \/ DedupStep
    \/ DedupFails

Spec == Init /\ [][Next]_vars

\* Several run_scrape jobs, one after the other, on one output file that
\* does not exist at first.
InitJobs ==
    /\ Idle
    /\ env = JobsEnv
    /\ file = NoFile
    /\ fileAtStart = file
    /\ lastSeen = NoneSeen

SpecJobs == InitJobs /\ [][Next]_vars

-----------------------------------------------------------------------------
(* save_to_csv(append=True) followed by deduplicate_csv, on any file with a *)
(* header line and any incoming list.                                      *)

DedupRows ==
    { Row(Some(1), Some(100)), Row(Some(1), Some(200)), Row(Some(2), Some(300)),
      Row(None, Some(100)), Row(None, Some(200)) }

NoEnv == [cards |-> {}, details |-> {}, jobs |-> 0, pages |-> {}]

InitDedup ==
    /\ Quiet
    /\ fetch_details = FALSE
    /\ max_age_days = None
    /\ idx = 0
    /\ today = Now0
    /\ env = NoEnv
    /\ \E existing \in SeqsUpTo(DedupRows, MaxRows) :
         file \in {CsvFile(existing)} \cup (IF existing = <<>> THEN {NoFile} ELSE {})
    /\ fileAtStart = file
    /\ lastSeen = UpdateSeen(NoneSeen, file.rows)
    /\ \E incoming \in SeqsUpTo(DedupRows, MaxRows) :
         /\ properties = incoming
         /\ input = incoming
    /\ append = TRUE
    /\ pc = "save"

NextDedup == SaveStep \/ DedupStep

SpecDedup == InitDedup /\ [][NextDedup]_vars

-----------------------------------------------------------------------------
(* Two jobs that append to the same file and deduplicate it, running at    *)
(* the same time.  Each write of the file is taken to be atomic; between   *)
(* the pd.read_csv of line 386 and the to_csv of line 405 the other job    *)
(* may run.                                                                *)

Procs == {1, 2}

ConcRows == { Row(Some(1), Some(100)), Row(Some(1), Some(200)), Row(Some(2), Some(300)) }

\* save_to_csv(cbatch[p], output_file, append=True)
CSave(p) ==
    /\ cpc[p] = "save"
    /\ file' = save_to_csv(cbatch[p], file, TRUE)
    /\ lastSeen' = UpdateSeen(lastSeen, cbatch[p])
    /\ cpc' = [cpc EXCEPT ![p] = "read"]
    /\ UNCHANGED <<pc, argVars, page_num, properties, idx, outcome, calls, jobs,
                   faults, input, fileAtStart, today, env, served, cdf, cbatch>>

\* deduplicate_csv up to df = pd.read_csv(csv_file) and the checks on it
\* (lines 378-392).
CRead(p) ==
    /\ cpc[p] = "read"
    /\ IF deduplicate_csv(file).result = "deduped"
       THEN /\ cdf' = [cdf EXCEPT ![p] = read_csv(file).rows]
            /\ cpc' = [cpc EXCEPT ![p] = "write"]
       ELSE /\ cpc' = [cpc EXCEPT ![p] = "done"]
            /\ UNCHANGED cdf
    /\ UNCHANGED <<pc, argVars, page_num, properties, idx, outcome, calls, jobs,
                   input, fileAtStart, sinkVars, today, env, served, cbatch>>

\* deduplicate_csv from drop_duplicates to to_csv (lines 400-405).
CWrite(p) ==
    /\ cpc[p] = "write"
    /\ file' = to_csv(drop_duplicates(cdf[p]), TRUE, Len(drop_duplicates(cdf[p])))
    /\ cpc' = [cpc EXCEPT ![p] = "done"]
    /\ UNCHANGED <<pc, argVars, page_num, properties, idx, outcome, calls, jobs,
                   faults, input, fileAtStart, lastSeen, today, env, served, cdf,
                   cbatch>>

InitConc ==
    /\ max_pages = 0
    /\ page_num = 0
    /\ outcome = "none"
    /\ calls = <<>>
    /\ jobs = 0
    /\ faults = 0
    /\ served = 0
    /\ pc = "idle"
    /\ fetch_details = FALSE
    /\ max_age_days = None
    /\ append = TRUE
    /\ properties = <<>>
    /\ idx = 0
    /\ input = <<>>
    /\ today = Now0
    /\ env = NoEnv
    /\ file \in {NoFile, CsvFile(<<Row(Some(1), Some(100))>>)}
    /\ fileAtStart = file
    /\ lastSeen = UpdateSeen(NoneSeen, file.rows)
    /\ cpc = [p \in Procs |-> "save"]
    /\ cdf = [p \in Procs |-> <<>>]
    /\ cbatch \in [Procs -> SeqsUpTo(ConcRows, MaxRows) \ {<<>>}]

NextConc == \E p \in Procs : CSave(p) \/ CRead(p) \/ CWrite(p)

SpecConc == InitConc /\ [][NextConc]_vars

-----------------------------------------------------------------------------
(* filter_recent_listings on any list *)

Todays == {Now0, <<1, 3, 2024>>}

FilterDates ==
    { None,
      Some(AddedToday),
      Some(DateText(FALSE, TRUE, None)),
      Some(DateText(FALSE, FALSE, Some(<<9, 1, 2025>>))),
      Some(DateText(FALSE, FALSE, Some(<<8, 1, 2025>>))),
      Some(DateText(FALSE, FALSE, Some(<<29, 2, 2024>>))),
      Some(DateText(FALSE, FALSE, Some(<<32, 1, 2025>>))),
      Some(DateText(FALSE, FALSE, None)) }

Listing(dt) == [Row(Some(1), Some(100)) EXCEPT !.date_listed = dt]

\* --max-age: None, 0, 0.5, 1.0 and 1.5 days
FilterMaxAges == {None, Some(0), Some(1), Some(2), Some(3)}

\* filter_recent_listings(properties, max_age_days) returns.
FilterCall ==
    /\ pc = "filter"
    /\ properties' = filter_recent_listings(properties, max_age_days, today)
    /\ pc' = "done"
    /\ UNCHANGED <<argVars, page_num, idx, outcome, calls, jobs, input,
                   fileAtStart, sinkVars, today, env, served, concVars>>

InitFilter ==
    /\ Quiet
    /\ env = NoEnv
    /\ file = NoFile
    /\ fileAtStart = NoFile
    /\ lastSeen = NoneSeen
    /\ fetch_details = FALSE
    /\ append = FALSE
    /\ idx = 0
    /\ today \in Todays
    /\ max_age_days \in FilterMaxAges
    /\ \E ds \in SeqsUpTo(FilterDates, MaxListings) :
         /\ properties = [i \in DOMAIN ds |-> Listing(ds[i])]
         /\ input = properties
    /\ pc = "filter"

SpecFilter == InitFilter /\ [][FilterCall]_vars

-----------------------------------------------------------------------------
(* enrich_property_details on any list *)

EnrichRecs ==
    { [Row(Some(1), Some(100)) EXCEPT !.listing_url = u, !.area_sqft = a,
                                      !.leasehold = l] :
        u \in {None, Url}, a \in {None, Some(500)}, l \in {None, Some(FALSE)} }

EnrichEnv ==
    [cards |-> {},
     details |-> DetailPages \cup {DetailPage(TRUE, None, None)},
     jobs |-> 0,
     pages |-> {}]

\* enrich_property_details returns (lines 245-247 and 294).
EnrichReturn ==
    /\ pc = "enrich"
    /\ ~fetch_details \/ idx > Len(properties)
    /\ pc' = "done"
    /\ UNCHANGED <<argVars, page_num, properties, idx, outcome, calls, jobs,
                   input, fileAtStart, sinkVars, today, env, served, concVars>>

InitEnrich ==
    /\ Quiet
    /\ env = EnrichEnv
    /\ file = NoFile
    /\ fileAtStart = NoFile
    /\ lastSeen = NoneSeen
    /\ fetch_details \in BOOLEAN
    /\ max_age_days = None
    /\ append = FALSE
    /\ today = Now0
    /\ properties \in SeqsUpTo(EnrichRecs, MaxRows)
    /\ input = properties
    /\ idx = 1
    /\ pc = "enrich"

NextEnrich == EnrichStep \/ EnrichReturn

SpecEnrich == InitEnrich /\ [][NextEnrich]_vars

-----------------------------------------------------------------------------
(* _extract_card_data on each card of any page *)

P12345 == <<"£", "1", "2", ",", "3", "4", "5">>

\* A card with every field present and well-formed.
FullCard == Card(Some(Some(1)), Some(P100), Some(<<"2">>), Some(<<"1">>), Some(AddedToday))

\* FullCard with at most one optional field missing or malformed, with and
\* without a link, and with and without a property id in the link.
CardInputs ==
    UNION { { [FullCard EXCEPT !.href = h] }
            \cup { [FullCard EXCEPT !.href = h, !.price = p] :
                     p \in {None, Some(POA), Some(P12345), Some(<<"£", ",">>)} }
            \cup { [FullCard EXCEPT !.href = h, !.bedrooms = b] :
                     b \in {None, Some(<<"S", "t", "u", "d", "i", "o">>), Some(<<>>)} }
            \cup { [FullCard EXCEPT !.href = h, !.bathrooms = b] :
                     b \in {None, Some(<<"1", "+">>)} }
            \cup { [FullCard EXCEPT !.href = h, !.date = None] }
          : h \in {None, Some(None), Some(Some(1))} }

\* The loop over the cards of a page (lines 137-140) has run.
ExtractCall ==
    /\ pc = "extract"
    /\ properties' = ExtractCards(input)
    /\ pc' = "done"
    /\ UNCHANGED <<argVars, page_num, idx, outcome, calls, jobs, input,
                   fileAtStart, sinkVars, today, env, served, concVars>>

InitCards ==
    /\ Quiet
    /\ env = NoEnv
    /\ file = NoFile
    /\ fileAtStart = NoFile
    /\ lastSeen = NoneSeen
    /\ fetch_details = FALSE
    /\ max_age_days = None
    /\ append = FALSE
    /\ idx = 0
    /\ today = Now0
    /\ input \in SeqsUpTo(CardInputs, MaxPageCards)
    /\ properties = <<>>
    /\ pc = "extract"

SpecCards == InitCards /\ [][ExtractCall]_vars

-----------------------------------------------------------------------------
(* main.py: extract_prices_new_structure.  A soup is [direct, testid,      *)
(* broad]: the texts of the div elements of class PropertyPrice_price__VL65t, *)
(* of the price divs inside the data-testid="property-price" elements, and *)
(* of the div elements of any PropertyPrice_price__ class.                 *)

Soup(d, t, b) == [direct |-> d, testid |-> t, broad |-> b]

\* One of the three loops (lines 35-42, 49-57, 64-69): [raised, prices].
RECURSIVE PricesOf(_)
PricesOf(texts) ==
    IF texts = <<>> THEN [raised |-> FALSE, prices |-> <<>>]
    ELSE LET r == ResolvePrice(Head(texts))
             rest == PricesOf(Tail(texts))
         IN IF r.raised THEN [raised |-> TRUE, prices |-> <<>>]
            ELSE IF rest.raised THEN rest
            ELSE [raised |-> FALSE,
                  prices |-> (IF r.value = None THEN <<>> ELSE <<Val(r.value)>>)
                               \o rest.prices]

\* [raised, prices]: the three methods in turn, each tried only when the
\* one before gave no price.
extract_prices_new_structure(soup) ==
    LET m1 == PricesOf(soup.direct) IN
    IF m1.raised \/ m1.prices # <<>> THEN m1
    ELSE LET m2 == PricesOf(soup.testid) IN
         IF m2.raised \/ m2.prices # <<>> THEN m2
         ELSE PricesOf(soup.broad)

-----------------------------------------------------------------------------
(* Price resolution on any text *)

PriceAlphabet == {"£", "1", "0", ",", "P"}

PriceTexts == SeqsUpTo(PriceAlphabet, MaxPriceLen) \cup {POA, P100, P12345}

\* _extract_card_data on a card whose price element has the text.
CardPriceCall ==
    /\ pc = "price"
    /\ properties' = ExtractCards(<<[FullCard EXCEPT !.price = Some(input)]>>)
    /\ outcome' = "returned"
    /\ pc' = "card_done"
    /\ UNCHANGED <<argVars, page_num, idx, calls, jobs, input, fileAtStart,
                   sinkVars, today, env, served, concVars>>

\* extract_prices_new_structure on a page whose one price element has the
\* text.
PricesCall ==
    /\ pc = "price"
    /\ LET r == extract_prices_new_structure(Soup(<<input>>, <<>>, <<input>>)) IN
       /\ properties' = r.prices
       /\ outcome' = IF r.raised THEN "raised" ELSE "returned"
    /\ pc' = "prices_done"
    /\ UNCHANGED <<argVars, page_num, idx, calls, jobs, input, fileAtStart,
                   sinkVars, today, env, served, concVars>>

InitPrice ==
    /\ Quiet
    /\ env = NoEnv
    /\ file = NoFile
    /\ fileAtStart = NoFile
    /\ lastSeen = NoneSeen
    /\ fetch_details = FALSE
    /\ max_age_days = None
    /\ append = FALSE
    /\ idx = 0
    /\ today = Now0
    /\ input \in PriceTexts
    /\ properties = <<>>
    /\ pc = "price"

NextPrice == CardPriceCall \/ PricesCall

SpecPrice == InitPrice /\ [][NextPrice]_vars

-----------------------------------------------------------------------------
(* parse_listing_age on any text *)

AgeDates ==
    { <<5, 1, 2025>>, <<9, 1, 2025>>, <<10, 1, 2025>>, <<11, 1, 2025>>,
      <<31, 12, 2024>>, <<29, 2, 2024>>, <<29, 2, 2025>>, <<32, 1, 2025>>,
      <<1, 13, 2025>>, <<0, 1, 2025>> }

AgeTexts ==
    {None} \cup { Some(DateText(t, y, d)) :
                    t \in BOOLEAN, y \in BOOLEAN,
                    d \in {None} \cup {Some(x) : x \in AgeDates} }

\* parse_listing_age(date_listed) returns; properties holds the result.
AgeCall ==
    /\ pc = "age"
    /\ properties' = <<parse_listing_age(input, today)>>
    /\ outcome' = "returned"
    /\ pc' = "age_done"
    /\ UNCHANGED <<argVars, page_num, idx, calls, jobs, input, fileAtStart,
                   sinkVars, today, env, served, concVars>>

InitAge ==
    /\ Quiet
    /\ env = NoEnv
    /\ file = NoFile
    /\ fileAtStart = NoFile
    /\ lastSeen = NoneSeen
    /\ fetch_details = FALSE
    /\ max_age_days = None
    /\ append = FALSE
    /\ idx = 0
    /\ today \in Todays
    /\ input \in AgeTexts
    /\ properties = <<>>
    /\ pc = "age"

SpecAge == InitAge /\ [][AgeCall]_vars

-----------------------------------------------------------------------------
(* main.py: get_avg_price.  page_num is the loop variable page, properties *)
(* is the list all_prices.                                                 *)

AvgDelay == 1   \* time.sleep(1)

\* What requests.get gives: an exception, a status other than 200, or a
\* page.
AvgResponses ==
    { [kind |-> "error", soup |-> Soup(<<>>, <<>>, <<>>)],
      [kind |-> "status", soup |-> Soup(<<>>, <<>>, <<>>)] }
      \cup { [kind |-> "ok", soup |-> sp] :
               sp \in { Soup(<<>>, <<>>, <<>>),
                        Soup(<<POA>>, <<>>, <<POA>>),
                        Soup(<<P100>>, <<>>, <<P100>>),
                        Soup(<<P100, POA, P200>>, <<>>, <<P100, POA, P200>>),
                        Soup(<<>>, <<P200>>, <<P200>>) } }

\* requests.get of page n; recs: the prices the page shows.
GetCall(n, resp) ==
    Call("get", n, resp.kind = "ok", 0, extract_prices_new_structure(resp.soup).prices)

\* One iteration of the loop of lines 119-154 on page n of max:
\* [all_prices, page, ended, raised, sleep].
AvgStep(resp, n, max, all_prices) ==
    IF resp.kind = "error"
    THEN [all_prices |-> all_prices, page |-> n, ended |-> TRUE, raised |-> TRUE,
          sleep |-> FALSE]
    ELSE IF resp.kind = "status"
    THEN [all_prices |-> all_prices, page |-> n, ended |-> TRUE, raised |-> FALSE,
          sleep |-> FALSE]
    ELSE IF n = 0
    THEN LET r == extract_prices_new_structure(resp.soup) IN
         IF r.raised
         THEN [all_prices |-> all_prices, page |-> n, ended |-> TRUE,
               raised |-> TRUE, sleep |-> FALSE]
         ELSE IF r.prices = <<>>
         THEN [all_prices |-> all_prices, page |-> n, ended |-> TRUE,
               raised |-> FALSE, sleep |-> FALSE]
         ELSE [all_prices |-> all_prices \o r.prices, page |-> n + 1,
               ended |-> ~(n + 1 < max), raised |-> FALSE, sleep |-> n < max - 1]
    ELSE [all_prices |-> all_prices, page |-> n + 1, ended |-> ~(n + 1 < max),
          raised |-> FALSE, sleep |-> FALSE]

RECURSIVE Sum(_)
Sum(ps) == IF ps = <<>> THEN 0 ELSE Head(ps) + Sum(Tail(ps))

\* The returned pair (lines 157-162); the mean is kept as sum over count.
avg_result(all_prices) ==
    IF all_prices = <<>> THEN [avg |-> None, count |-> 0]
    ELSE [avg |-> Some([sum |-> Sum(all_prices), over |-> Len(all_prices)]),
          count |-> Len(all_prices)]

\* One iteration of the loop of get_avg_price.
AvgPage ==
    /\ pc = "avg"
    /\ page_num < max_pages
    /\ \E resp \in AvgResponses :
         LET r == AvgStep(resp, page_num, max_pages, properties) IN
         /\ properties' = r.all_prices
         /\ page_num' = r.page
         /\ pc' = IF r.raised THEN "avg_done"
                  ELSE IF r.ended THEN "avg_return" ELSE "avg"
         /\ outcome' = IF r.raised THEN "raised" ELSE outcome
         /\ calls' = calls \o <<GetCall(page_num, resp)>>
                       \o (IF r.sleep THEN <<SleepCall(AvgDelay)>> ELSE <<>>)
    /\ UNCHANGED <<argVars, idx, jobs, input, fileAtStart, sinkVars, today, env,
                   served, concVars>>

\* get_avg_price returns avg_result(all_prices) (lines 157-162).
AvgReturn ==
    /\ pc = "avg_return"
    /\ outcome' = "returned"
    /\ pc' = "avg_done"
    /\ UNCHANGED <<argVars, page_num, properties, idx, calls, jobs, input,
                   fileAtStart, sinkVars, today, env, served, concVars>>

InitAvg ==
    /\ page_num = 0
    /\ outcome = "none"
    /\ calls = <<>>
    /\ jobs = 0
    /\ faults = 0
    /\ served = 0
    /\ cpc = <<>>
    /\ cdf = <<>>
    /\ cbatch = <<>>
    /\ env = NoEnv
    /\ file = NoFile
    /\ fileAtStart = NoFile
    /\ lastSeen = NoneSeen
    /\ fetch_details = FALSE
    /\ max_age_days = None
    /\ append = FALSE
    /\ idx = 0
    /\ today = Now0
    /\ input = <<>>
    /\ properties = <<>>
    /\ max_pages \in 0..MaxPagesBound
    /\ pc = IF max_pages > 0 THEN "avg" ELSE "avg_return"

NextAvg == AvgPage \/ AvgReturn

SpecAvg == InitAvg /\ [][NextAvg]_vars

-----------------------------------------------------------------------------
(* Properties of search_properties *)

IsPage(c) == c.kind = "page"
IsEmptyPage(c) == c.kind = "page" /\ c.ok /\ c.cards = 0
IsFailedPage(c) == c.kind = "page" /\ ~c.ok

\* The records of the listing pages fetched before call i, in page order.
RecordsBefore(i) ==
    Concat([j \in 1..(i - 1) |-> IF IsPage(calls[j]) THEN calls[j].recs ELSE <<>>])

\* C1: when a fetched listing page holds zero cards, no page after it is
\* ever fetched, and search_properties returns exactly the records of the
\* pages before it.
C1_StopsAtEmptyPage ==
    \A i \in DOMAIN calls :
        IsEmptyPage(calls[i]) =>
            /\ \A j \in DOMAIN calls : IsPage(calls[j]) => calls[j].n <= calls[i].n
            /\ \A j \in DOMAIN calls : j > i => ~IsPage(calls[j])
            /\ pc # "search"
            /\ pc = "searched" => properties = RecordsBefore(i)

\* An empty second page with a third page still within max_pages, after a
\* first page that gave a record.
C1_Witness ==
    /\ pc = "searched"
    /\ max_pages = 3
    /\ properties # <<>>
    /\ \E i \in DOMAIN calls : IsEmptyPage(calls[i]) /\ calls[i].n = 1

\* C2: when the fetch of a listing page fails, search_properties ends there:
\* no listing page is fetched afterwards (no later page, no retry), and it
\* returns, without raising, exactly the records of the pages before.
C2_StopsAtFailedFetch ==
    \A i \in DOMAIN calls :
        IsFailedPage(calls[i]) =>
            /\ \A j \in DOMAIN calls : j > i => ~IsPage(calls[j])
            /\ pc # "search"
            /\ pc = "searched" => properties = RecordsBefore(i)

\* A failed fetch of the second page, with pages left, after a first page
\* that gave a record.
C2_Witness ==
    /\ pc = "searched"
    /\ max_pages = 3
    /\ properties # <<>>
    /\ \E i \in DOMAIN calls : IsFailedPage(calls[i]) /\ calls[i].n = 1

-----------------------------------------------------------------------------
(* Properties of the merge: save_to_csv(append=True), then deduplicate_csv *)

\* existing ++ incoming
Merged == fileAtStart.rows \o input

RowsWithId(rows, pid) == {k \in DOMAIN rows : rows[k].property_id = pid}

LastWithId(rows, pid) ==
    rows[CHOOSE k \in RowsWithId(rows, pid) : \A m \in RowsWithId(rows, pid) : m <= k]

\* C3: after the append and the deduplication the file holds exactly one row
\* for each property_id of existing ++ incoming, the last one that carries
\* the id in that order, and no row with any other property_id.
C3_OneRowPerIdLastWins ==
    pc = "done" =>
        /\ \A i \in DOMAIN Merged :
             Merged[i].property_id # None =>
                 /\ Cardinality(RowsWithId(file.rows, Merged[i].property_id)) = 1
                 /\ \A k \in RowsWithId(file.rows, Merged[i].property_id) :
                      file.rows[k] = LastWithId(Merged, Merged[i].property_id)
        /\ \A k \in DOMAIN file.rows :
             file.rows[k].property_id # None =>
                 RowsWithId(Merged, file.rows[k].property_id) # {}

\* The example of the specification: existing [id 1, price 100], incoming
\* [id 1, price 200; id 2, price 300] give two rows, id 1 with price 200.
C3_Witness ==
    /\ pc = "done"
    /\ fileAtStart.rows = <<Row(Some(1), Some(100))>>
    /\ input = <<Row(Some(1), Some(200)), Row(Some(2), Some(300))>>
    /\ Len(file.rows) = 2
    /\ \E k \in DOMAIN file.rows : file.rows[k] = Row(Some(1), Some(200))

\* C4: deduplicate_csv keeps every row whose property_id is absent: as many
\* such rows are in the file after it as existing ++ incoming hold.
C4_AbsentIdRowsAllKept ==
    pc = "done" =>
        Cardinality(RowsWithId(file.rows, None)) = Cardinality(RowsWithId(Merged, None))

-----------------------------------------------------------------------------
(* Properties of the output file over run_scrape jobs *)

HasId(rows, pid) == RowsWithId(rows, Some(pid)) # {}

\* Each present property_id has at most one row in the file, and that row
\* is the one most recently written for the id.
OneLatestRowPerId ==
    \A pid \in PropertyIds :
        /\ Cardinality(RowsWithId(file.rows, Some(pid))) <= 1
        /\ \A k \in RowsWithId(file.rows, Some(pid)) :
             file.rows[k] = Val(lastSeen[pid])

\* C5: in every state of the file, also between save_to_csv and
\* deduplicate_csv and after a failed deduplication, each present
\* property_id has at most one row, the most recently observed one.
C5_OneRowPerIdInEveryState == OneLatestRowPerId

\* Every property_id the file held when the job started is still in it.
IdsKept == \A pid \in PropertyIds : HasId(fileAtStart.rows, pid) => HasId(file.rows, pid)

-----------------------------------------------------------------------------
(* Properties of concurrent jobs *)

AllDone == \A p \in Procs : cpc[p] = "done"

\* C7: when two jobs append to the same file and deduplicate it at the same
\* time, then under every interleaving the final file holds every
\* property_id either job wrote or the file held before, and holds exactly
\* one row for it.
C7_ConcurrentJobsLoseNothing ==
    AllDone =>
        \A pid \in PropertyIds :
            (\/ HasId(fileAtStart.rows, pid)
             \/ \E p \in Procs : HasId(cbatch[p], pid))
                => Cardinality(RowsWithId(file.rows, Some(pid))) = 1

-----------------------------------------------------------------------------
(* Properties of the delays of one job *)

IsFetch(c) == c.kind = "page" \/ c.kind = "detail"

\* C8: every fetch of a job but its first comes straight after a sleep, and
\* the sleep before a detail-page fetch is longer than the listing-page
\* delay.
C8_DelayBeforeEveryFetch ==
    \A i \in DOMAIN calls :
        i > 1 /\ IsFetch(calls[i]) =>
            /\ calls[i - 1].kind = "sleep"
            /\ calls[i].kind = "detail" => calls[i - 1].n > DefaultDelay

-----------------------------------------------------------------------------
(* Properties of filter_recent_listings *)

\* C9: without max_age_days the list is returned as it is; with it, the
\* result is the subsequence, in order, of the records whose age is absent
\* or at most max_age_days.
C9_KeepsRecentAndUnknown ==
    pc = "done" =>
        IF max_age_days = None THEN properties = input
        ELSE properties =
               SelectSeq(input,
                         LAMBDA r :
                            LET age == parse_listing_age(r.date_listed, today) IN
                            age = None \/ Val(age) <= Val(max_age_days))

\* max_age_days = 1.0: the record of age 1.0 and the record of unknown age
\* are kept, the record of age 2.0 between them is dropped.
C9_Witness ==
    /\ pc = "done"
    /\ today = Now0
    /\ max_age_days = Some(2)
    /\ input = << Listing(Some(DateText(FALSE, TRUE, None))),
                  Listing(Some(DateText(FALSE, FALSE, Some(<<8, 1, 2025>>)))),
                  Listing(Some(DateText(FALSE, FALSE, None))) >>
    /\ properties = << Listing(Some(DateText(FALSE, TRUE, None))),
                       Listing(Some(DateText(FALSE, FALSE, None))) >>

-----------------------------------------------------------------------------
(* Properties of enrich_property_details *)

\* C10: a record that comes with area_sqft (or leasehold) populated keeps
\* that value through the enrichment, and no field other than these two
\* changes.
C10_PopulatedFieldsKept ==
    \A i \in DOMAIN input :
        /\ input[i].area_sqft # None => properties[i].area_sqft = input[i].area_sqft
        /\ input[i].leasehold # None => properties[i].leasehold = input[i].leasehold
        /\ [properties[i] EXCEPT !.area_sqft = None, !.leasehold = None]
             = [input[i] EXCEPT !.area_sqft = None, !.leasehold = None]

IsDetail(c) == c.kind = "detail"

\* The fields enrichment may fill, blanked.
Core(r) == [r EXCEPT !.area_sqft = None, !.leasehold = None]

\* C11: a record whose detail-page fetch failed is left with every field as
\* it was; the list keeps its records in their order; and once the function
\* has returned with fetch_details set, every record with a listing_url has
\* had its detail page fetched, whatever failed before it.
C11_FailedFetchLeavesRecord ==
    /\ Len(properties) = Len(input)
    /\ \A i \in DOMAIN input : Core(properties[i]) = Core(input[i])
    /\ \A k \in DOMAIN calls :
         IsDetail(calls[k]) /\ ~calls[k].ok =>
             properties[calls[k].n] = input[calls[k].n]
    /\ pc = "done" /\ fetch_details =>
         \A i \in DOMAIN input :
             input[i].listing_url # None =>
                 \E k \in DOMAIN calls : IsDetail(calls[k]) /\ calls[k].n = i

\* The fetch for the first record failed, and the second record was
\* fetched and filled after it.
C11_Witness ==
    /\ pc = "done"
    /\ Len(input) = 2
    /\ \E k \in DOMAIN calls : IsDetail(calls[k]) /\ calls[k].n = 1 /\ ~calls[k].ok
    /\ properties[1] = input[1]
    /\ input[2].area_sqft = None
    /\ properties[2].area_sqft = Some(726)

-----------------------------------------------------------------------------
(* Properties of _extract_card_data *)

HasLink(card) == card.href # None

\* The price text of the card is one whose integer parse raises.
PriceFails(card) == card.price # None /\ ResolvePrice(Val(card.price)).raised

\* C12: on a page whose price texts all parse, every card with a detail link
\* gives a record, in page order, whose bedrooms or bathrooms is absent when
\* its text is missing or not an integer and whose other fields are the
\* extracted ones.
C12_OptionalFieldFailureKeepsRecord ==
    pc = "done" /\ (\A i \in DOMAIN input : ~PriceFails(input[i])) =>
        LET linked == SelectSeq(input, HasLink) IN
        properties = [i \in DOMAIN linked |-> CardRecord(linked[i])]

-----------------------------------------------------------------------------
(* Properties of the price resolution *)

\* C14: for every text, extract_prices_new_structure returns without an
\* error and gives no price or one non-negative integer, and
\* _extract_card_data gives the record with price absent or a non-negative
\* integer; "POA" gives absent and "£12,345" gives 12345.
C14_PriceResolutionNeverRaises ==
    /\ pc = "prices_done" =>
         /\ outcome = "returned"
         /\ properties = <<>> \/ (Len(properties) = 1 /\ properties[1] \in Nat)
         /\ input = POA => properties = <<>>
         /\ input = P12345 => properties = <<12345>>
    /\ pc = "card_done" =>
         /\ Len(properties) = 1
         /\ properties[1].price = None \/ Val(properties[1].price) \in Nat
         /\ input = POA => properties[1].price = None
         /\ input = P12345 => properties[1].price = Some(12345)

-----------------------------------------------------------------------------
(* Properties of parse_listing_age *)

\* The first day of the month after that of <<d, m, y>>.
NextMonth(dmy) ==
    IF dmy[2] < 12 THEN <<1, dmy[2] + 1, dmy[3]>> ELSE <<1, 1, dmy[3] + 1>>

Earlier(a, b) ==
    \/ a[3] < b[3]
    \/ a[3] = b[3] /\ a[2] < b[2]
    \/ a[3] = b[3] /\ a[2] = b[2] /\ a[1] < b[1]

\* Number of days from a to b, a not after b, counted month by month.
RECURSIVE DaysFrom(_, _)
DaysFrom(a, b) ==
    IF a[2] = b[2] /\ a[3] = b[3] THEN b[1] - a[1]
    ELSE (DaysInMonth(a[2], a[3]) - a[1] + 1) + DaysFrom(NextMonth(a), b)

\* Whole days from date a to date b, negative when b is before a.
DayDiff(a, b) == IF Earlier(b, a) THEN 0 - DaysFrom(b, a) ELSE DaysFrom(a, b)

\* C15: the rules of parse_listing_age in their order: absent text gives
\* absent; "today" gives 0.0; else "yesterday" gives 1.0; else a D/M/YYYY
\* match gives the whole days from that date to the current date, or absent
\* when it is not a calendar date; anything else gives absent.
C15_AgeRulesInOrder ==
    pc = "age_done" =>
        LET r == properties[1] IN
        /\ outcome = "returned"
        /\ IF input = None THEN r = None
           ELSE LET txt == Val(input) IN
                IF txt.today THEN r = Some(0)
                ELSE IF txt.yesterday THEN r = Some(2)
                ELSE IF txt.date = None THEN r = None
                ELSE LET d == Val(txt.date) IN
                     IF /\ d[2] \in 1..12
                        /\ d[1] \in 1..DaysInMonth(d[2], d[3])
                     THEN r = Some(2 * DayDiff(d, today))
                     ELSE r = None

\* "Added on 05/01/2025" read on 2025-01-10 gives 5.0.
C15_Witness ==
    /\ pc = "age_done"
    /\ today = <<10, 1, 2025>>
    /\ input = Some(DateText(FALSE, FALSE, Some(<<5, 1, 2025>>)))
    /\ properties = <<Some(10)>>

-----------------------------------------------------------------------------
(* Properties of run_scrape *)

\* C16: a job whose pagination gave no record, or whose filter kept none,
\* ends there: it goes to no later stage with an empty list, it has ended
\* normally with the file as it was when the job started, and after an
\* empty pagination it has fetched no detail page.
C16_EmptyJobLeavesSink ==
    /\ pc \in {"enrich", "save", "dedup"} => properties # <<>>
    /\ outcome \in {"no_properties", "no_recent"} =>
         /\ pc = "done"
         /\ file = fileAtStart
         /\ \A k \in DOMAIN calls : ~IsDetail(calls[k])
    /\ pc = "done" /\ properties = <<>> =>
         outcome \in {"no_properties", "no_recent"}

\* The filter dropped every record of a job run on an existing file, and
\* the file is as it was.
C16_Witness ==
    /\ pc = "done"
    /\ outcome = "no_recent"
    /\ max_age_days # None
    /\ page_num > 0
    /\ fileAtStart.exists
    /\ file = fileAtStart

\* C17: after a sink failure in save_to_csv the file holds the rows it held
\* when the job started, and after a sink failure in the write-back of
\* deduplicate_csv it holds the rows save_to_csv left in it.
C17_SinkFailureLeavesFile ==
    /\ outcome = "save_sink_error" => file.rows = fileAtStart.rows
    /\ outcome = "dedup_sink_error" =>
         file.rows = save_to_csv(properties, fileAtStart, append).rows

-----------------------------------------------------------------------------
(* Properties of get_avg_price *)

IsGet(c) == c.kind = "get"

\* The page fetch at position k of calls ends the pagination.
StopsAt(k) == IsGet(calls[k]) /\ (~calls[k].ok \/ calls[k].recs = <<>>)

\* The prices of the pages fetched before position k of calls.
RECURSIVE PricesBefore(_)
PricesBefore(k) ==
    IF k <= 1 THEN <<>>
    ELSE PricesBefore(k - 1)
           \o (IF IsGet(calls[k - 1]) THEN calls[k - 1].recs ELSE <<>>)

\* C18: when get_avg_price has returned, no page was fetched after a page
\* that failed or showed no price, every page fetch but the first came
\* straight after a one-second sleep, and the returned pair is the mean and
\* the count of the prices of all the pages fetched before the stop.
C18_AllPagesCounted ==
    pc = "avg_done" /\ outcome = "returned" =>
        /\ \A k \in DOMAIN calls : StopsAt(k) => k = Len(calls)
        /\ \A k \in DOMAIN calls :
             k > 1 /\ IsGet(calls[k]) => calls[k - 1] = SleepCall(AvgDelay)
        /\ avg_result(properties) = avg_result(PricesBefore(Len(calls) + 1))

====
